---- MODULE Spec2Model ----
(***************************************************************************)
(* A model of parser.py (speedcell4/biaffineparser): the two commands      *)
(* train() and test(), the evaluation loop of test() with its running      *)
(* aggregate and its decode-mode output, and the two collaborators the     *)
(* loop calls, the Evaluator and the Decoder (BiaffineParser.parse).       *)
(*                                                                         *)
(* Python lists are sequences here: position p of a Python list is index   *)
(* p + 1 of the sequence, x[1:] is Tail(x).                                *)
(***************************************************************************)
EXTENDS Integers, Sequences, FiniteSets, TLC

\* ------------------------------------------------------------------------
\* Bounds of the model
\* ------------------------------------------------------------------------

\* The largest dataset test() iterates over, in sentences.
MaxSent == 2

\* The largest value of context.batch_size.
MaxBatch == 2

\* The Decoder: the width of a batch's padded score matrix, which is the
\* largest sentence length (root included).
MaxLen == 4

\* The Decoder: arc and label scores are integers 0..MaxScore.
MaxScore == 2

\* The Decoder: label-score tensors are drawn from a family indexed 0..MaxSeed.
MaxSeed == 2

VARIABLES
    cmd,        \* "train" or "test": the function that is run
    entry,      \* "main": run by App.run() from the command line (lines
                \*   255-313); "call": the function called with its arguments
    backend,    \* train(): the backend argument; test(): context.backend
    decode,     \* test(): the decode argument
    batch_size, \* test(): context.batch_size
    ndata,      \* test(): the number of sentences of the loaded dataset
    test_file,  \* train(): whether a validation file was given
    pc,         \* the position in the command's body
    error,      \* the message of the exception the command raised, or ""
    loaded,     \* the number of loader.load(...) calls made so far
    built,      \* whether the neural network model has been constructed
    nparse,     \* the number of parser.parse(...) calls made so far
    batch,      \* test(): the batch being processed, parse's output zipped in
    idx,        \* test(): the number of sentences of batch already processed
    nsent,      \* test(): the number of sentences the iterator has yielded
    UAS,        \* test(): the running aggregate of line 230 and line 250
    LAS,
    count,
    evals,      \* history: the triples evaluator.evaluate returned, in order
    hist,       \* history: the sentences processed with their predictions
    out,        \* standard output: the lines print() wrote, in order
    report,     \* what line 251 logged
    e_in,       \* a call of Evaluator.evaluate on its own: the arguments
    e_out,      \*   and the triple it returned
    e_pc,
    d_n,        \* a call of the Decoder on its own: the sentence's length,
    d_arc,      \*   the arc scores, the label scores (by their seed),
    d_seed,
    d_pc,
    d_heads,    \*   and the heads and labels it returned
    d_labels

vars == <<cmd, entry, backend, decode, batch_size, ndata, test_file, pc, error,
          loaded, built, nparse, batch, idx, nsent, UAS, LAS, count,
          evals, hist, out, report,
          e_in, e_out, e_pc, d_n, d_arc, d_seed, d_pc, d_heads, d_labels>>

flowvars == <<cmd, entry, backend, decode, batch_size, ndata, test_file, pc, error,
              loaded, built, nparse, batch, idx, nsent, UAS, LAS, count,
              evals, hist, out, report>>

\* The variables of the two stand-alone calls, which the commands leave alone
others == <<e_in, e_out, e_pc, d_n, d_arc, d_seed, d_pc, d_heads, d_labels>>

\* ------------------------------------------------------------------------
\* Helpers over Python lists
\* ------------------------------------------------------------------------

Min(a, b) == IF a <= b THEN a ELSE b

\* x[1:]
Slice1(x) == IF x = <<>> THEN <<>> ELSE Tail(x)

\* list(zip(a, b, c, d)): as long as the shortest argument
Zip4(a, b, c, d) ==
    [k \in 1..Min(Min(Len(a), Len(b)), Min(Len(c), Len(d))) |->
        <<a[k], b[k], c[k], d[k]>>]

\* ------------------------------------------------------------------------
\* The loader's vocabularies and the dataset (collaborators of test())
\* ------------------------------------------------------------------------

\* loader.get_sentence: word ids to word strings (id 0 is the root token)
WordVocab == <<"<ROOT>", "She", "runs", ".">>

\* loader.get_processor('pos').vocabulary (id 0 is the root's tag)
PosVocab == <<"<ROOT>", "PRP", "VBZ", ".">>

\* loader.label_map
LabelVocab == <<"root", "nsubj">>

\* vocabulary.lookup(id)
Lookup(vocab, id) == vocab[id + 1]

\* loader.get_sentence(word_tokens)
get_sentence(word_tokens) ==
    [k \in 1..Len(word_tokens) |-> Lookup(WordVocab, word_tokens[k])]

\* The Evaluator's table of punctuation tags
PunctTags == {".", ",", ":", "``", "''"}

\* The sentences a dataset is made of: word ids, POS ids, gold heads and gold
\* label ids, one entry per position, position 0 being the root token.
Corpus ==
    << [words |-> <<0, 3>>,    pos |-> <<0, 3>>,
        arcs  |-> <<0, 0>>,    labels |-> <<0, 0>>],
       [words |-> <<0, 1, 3>>, pos |-> <<0, 1, 3>>,
        arcs  |-> <<0, 0, 1>>, labels |-> <<0, 0, 1>>],
       [words |-> <<0, 1, 2>>, pos |-> <<0, 1, 2>>,
        arcs  |-> <<0, 2, 0>>, labels |-> <<0, 1, 0>>] >>

LabelIds == 0..(Len(LabelVocab) - 1)

\* What parser.parse may return for sentence s: a head index and a label id
\* per position; the entry of the root position is a placeholder.
Predictions(s) ==
    LET n == Len(Corpus[s].words)
    IN  { [sent |-> s, arcs |-> <<0>> \o a, labels |-> <<0>> \o l] :
            a \in [1..(n - 1) -> 0..(n - 1)],
            l \in [1..(n - 1) -> LabelIds] }

Items == UNION { Predictions(s) : s \in 1..Len(Corpus) }

\* ------------------------------------------------------------------------
\* utils.Evaluator
\* ------------------------------------------------------------------------

\* Evaluator.create_ignore_mask(pos_tokens): the root position and every
\* punctuation-tagged position are ignored.
create_ignore_mask(pos_tokens) ==
    [k \in 1..Len(pos_tokens) |->
        (k = 1) \/ (Lookup(PosVocab, pos_tokens[k]) \in PunctTags)]

RECURSIVE EvalFrom(_, _, _, _, _, _)
EvalFrom(k, p_arcs, p_labels, t_arcs, t_labels, mask) ==
    IF k > Len(mask) THEN <<0, 0, 0>>
    ELSE LET rest == EvalFrom(k + 1, p_arcs, p_labels, t_arcs, t_labels, mask)
             arc_ok == p_arcs[k] = t_arcs[k]
             label_ok == arc_ok /\ (p_labels[k] = t_labels[k])
         IN  IF mask[k] THEN rest
             ELSE << rest[1] + (IF arc_ok THEN 1 ELSE 0),
                     rest[2] + (IF label_ok THEN 1 ELSE 0),
                     rest[3] + 1 >>

\* evaluate taking the first position for the root and never counting it.
evaluateSkipsFirst(p_arcs, p_labels, t_arcs, t_labels, mask) ==
    EvalFrom(2, p_arcs, p_labels, t_arcs, t_labels, mask)

\* evaluate applying the mask to the two scores but not to the total.
evaluateCountsMasked(p_arcs, p_labels, t_arcs, t_labels, mask) ==
    LET r == EvalFrom(1, p_arcs, p_labels, t_arcs, t_labels, mask)
    IN  <<r[1], r[2], Len(mask)>>

\* Evaluator.evaluate(pred_arcs, pred_labels, gold_arcs, gold_labels, mask)
\*   -> (uas_count, las_count, total_count)
evaluate(p_arcs, p_labels, t_arcs, t_labels, mask) ==
    EvalFrom(1, p_arcs, p_labels, t_arcs, t_labels, mask)

\* ------------------------------------------------------------------------
\* test(): the body of the loop over the sentences of a batch
\* ------------------------------------------------------------------------

\* "\t".join([word, pos_map.lookup(pos_id), str(arc), label_map.lookup(label_id)])
JoinTab(f) == f[1] \o "\t" \o f[2] \o "\t" \o f[3] \o "\t" \o f[4]

\* DecodeLines with the predictions not sliced: zip(words[1:], pos[1:], p_arcs,
\* p_labels), which pairs every word with the prediction of the token before it.
DecodeLinesUnsliced(words, pos_tokens, p_arcs, p_labels) ==
    LET z == Zip4(Slice1(words), Slice1(pos_tokens), p_arcs, p_labels)
    IN  [k \in 1..Len(z) |->
            JoinTab(<< z[k][1], Lookup(PosVocab, z[k][2]),
                       ToString(z[k][3]), Lookup(LabelVocab, z[k][4]) >>)]
        \o <<"">>

\* Lines 243-249: the lines print() writes for one sentence in decode mode.
DecodeLines(words, pos_tokens, p_arcs, p_labels) ==
    LET z == Zip4(Slice1(words), Slice1(pos_tokens),
                  Slice1(p_arcs), Slice1(p_labels))
    IN  [k \in 1..Len(z) |->
            JoinTab(<< z[k][1], Lookup(PosVocab, z[k][2]),
                       ToString(z[k][3]), Lookup(LabelVocab, z[k][4]) >>)]
        \o <<"">>

\* Accumulate counting sentences instead of evaluated tokens: count + 1.
AccumulateSentences(acc, r) ==
    [UAS |-> acc.UAS + r[1], LAS |-> acc.LAS + r[2], count |-> acc.count + 1]

\* Accumulate with the two scores crossed: UAS + _las, LAS + _uas.
AccumulateCrossed(acc, r) ==
    [UAS |-> acc.UAS + r[2], LAS |-> acc.LAS + r[1], count |-> acc.count + r[3]]

\* Line 250: UAS, LAS, count = UAS + _uas, LAS + _las, count + _count
Accumulate(acc, r) ==
    [UAS |-> acc.UAS + r[1], LAS |-> acc.LAS + r[2], count |-> acc.count + r[3]]

\* Lines 239-241: the triple evaluate returns for one sentence of a batch
EvalItem(item) ==
    LET s == Corpus[item.sent]
    IN  evaluate(item.arcs, item.labels, s.arcs, s.labels,
                 create_ignore_mask(s.pos))

\* Lines 242-249: what one iteration adds to standard output
Printed(d, item) ==
    LET s == Corpus[item.sent]
    IN  IF d THEN DecodeLines(get_sentence(s.words), s.pos,
                              item.arcs, item.labels)
        ELSE <<>>

\* LoopBody with line 250 moved into an else branch of "if decode:".
LoopBodyDecodeSkips(d, acc, o, item) ==
    [acc |-> IF d THEN acc ELSE Accumulate(acc, EvalItem(item)),
     out |-> o \o Printed(d, item)]

\* Lines 237-250: one iteration, from the aggregate and the output before it
LoopBody(d, acc, o, item) ==
    [acc |-> Accumulate(acc, EvalItem(item)), out |-> o \o Printed(d, item)]

\* ------------------------------------------------------------------------
\* Exact ratios, for UAS / count * 100
\* ------------------------------------------------------------------------

RatDiv(a, b) == <<a, b>>
RatMul(r, k) == <<r[1] * k, r[2]>>
RatEq(r, s) == r[1] * s[2] = s[1] * r[2]

\* Line 251-252: the two numbers formatted into the log line
Scores(acc) ==
    [uas |-> RatMul(RatDiv(acc.UAS, acc.count), 100),
     las |-> RatMul(RatDiv(acc.LAS, acc.count), 100)]

\* ------------------------------------------------------------------------
\* The Decoder (BiaffineParser.parse)
\* ------------------------------------------------------------------------

\* The non-root tokens of a sentence of length n (position 0 is the root)
Tokens(n) == 1..(n - 1)

\* The index of S with the highest score f, the lowest such index on a tie
ArgMax(S, f) ==
    CHOOSE j \in S : \A k \in S : f[j] > f[k] \/ (f[j] = f[k] /\ j <= k)

\* The candidate heads of token i: every position of the sentence but i;
\* the padding positions n.. are no candidates
Cands(n, i) == {j \in 0..(n - 1) : j # i}

\* Step 1: every token takes its highest-scoring head
Greedy(n, arc) == [i \in Tokens(n) |-> ArgMax(Cands(n, i), arc[i])]

\* The position reached from i by following k arcs, stopping at the root
RECURSIVE Iter(_, _, _)
Iter(h, i, k) == IF k = 0 \/ i = 0 THEN i ELSE Iter(h, h[i], k - 1)

RootKids(h, n) == {i \in Tokens(n) : h[i] = 0}

IsTree(h, n) ==
    /\ Cardinality(RootKids(h, n)) = 1
    /\ \A i \in Tokens(n) : Iter(h, i, n - 1) = 0

\* Step 2: what the repair pass may return. A valid greedy assignment is
\* final. For an invalid one the convention of the pass (which heads are
\* "available", how the cycle-breaking and the root-forcing compose) is left
\* open, and what is fixed of its result is one head in [0, n) per token:
\* every such assignment is a possible result.
Repair(h, n, arc) ==
    IF IsTree(h, n) THEN {h} ELSE [Tokens(n) -> 0..(n - 1)]

\* The label-score tensor of seed s: the score of label l on the arc i -> j
LabelScore(s, i, j, l) ==
    (i * (l + 1) + j * (s + 1) + l * (s + 2)) % (MaxScore + 1)

\* Step 3: the label of the arc i -> j
LabelOf(s, i, j) ==
    ArgMax(LabelIds, [l \in LabelIds |-> LabelScore(s, i, j, l)])

\* parse decoding the whole padded matrix and cutting the result to the
\* sentence's length.
parsePadded(n, arc, s) ==
    { [arcs   |-> <<0>> \o [i \in Tokens(n) |-> h[i]],
       labels |-> <<0>> \o [i \in Tokens(n) |-> LabelOf(s, i, h[i])]] :
      h \in Repair(Greedy(MaxLen, arc), MaxLen, arc) }

\* parse for one sentence: the results it may return, each a head and a label
\* per position, the entries of the root position being placeholders
parse(n, arc, s) ==
    { [arcs   |-> <<0>> \o [i \in Tokens(n) |-> h[i]],
       labels |-> <<0>> \o [i \in Tokens(n) |-> LabelOf(s, i, h[i])]] :
      h \in Repair(Greedy(n, arc), n, arc) }

\* The arc scores of the real tokens of a sentence of length n inside a
\* matrix of width MaxLen: off the diagonal any score, on the diagonal the
\* highest one; the rows of padding positions hold the highest score too.
ArcMatrices(n) ==
    LET off == {<<i, j>> \in Tokens(n) \X (0..(MaxLen - 1)) : i # j}
    IN  { [i \in Tokens(MaxLen) |-> [j \in 0..(MaxLen - 1) |->
              IF i \in Tokens(n) /\ i # j THEN f[<<i, j>>] ELSE MaxScore]] :
          f \in [off -> 0..MaxScore] }

\* ------------------------------------------------------------------------
\* The commands
\* ------------------------------------------------------------------------

Backends == {"chainer", "pytorch", "tensorflow"}
Supported == {"chainer", "pytorch"}

\* Lines 259-262: choices=('chainer', 'pytorch'), the values the command line
\* of the train command may give --backend
Choices == {"chainer", "pytorch"}

\* "backend={} is not supported.".format(backend)
Unsupported(b) == "backend=" \o b \o " is not supported."

NoReport == [kind |-> "none"]

\* No stand-alone call of evaluate is under way
EvalIdle ==
    /\ e_in = <<>>
    /\ e_out = <<>>
    /\ e_pc = "idle"

\* No stand-alone call of the Decoder is under way
ParseIdle ==
    /\ d_n = 0
    /\ d_arc = <<>>
    /\ d_seed = 0
    /\ d_pc = "idle"
    /\ d_heads = <<>>
    /\ d_labels = <<>>

\* train() is entered with the backend of its argument: the command line
\* gives one of Choices (lines 259-262), a caller of the function gives any
\* string. test() takes no backend argument: it reads the backend from the
\* context saved with the model (line 173), whichever way it is entered.
Init ==
    /\ EvalIdle
    /\ ParseIdle
    /\ cmd \in {"train", "test"}
    /\ entry \in {"main", "call"}
    /\ backend \in Backends
    /\ (cmd = "train" /\ entry = "main") => backend \in Choices
    /\ (cmd = "test") => entry = "main"
    /\ decode \in BOOLEAN
    /\ batch_size \in 1..MaxBatch
    /\ ndata \in 0..MaxSent
    /\ test_file \in BOOLEAN
    /\ (cmd = "train") => (decode = FALSE /\ batch_size = 1 /\ ndata = 0)
    /\ (cmd = "test") => (test_file = FALSE)
    /\ pc = "start"
    /\ error = ""
    /\ loaded = 0
    /\ built = FALSE
    /\ nparse = 0
    /\ batch = <<>>
    /\ idx = 0
    /\ nsent = 0
    /\ UAS = 0
    /\ LAS = 0
    /\ count = 0
    /\ evals = <<>>
    /\ hist = <<>>
    /\ out = <<>>
    /\ report = NoReport

\* train(), lines 25-56: select the backend or raise ValueError
TrainSetupBackend ==
    /\ cmd = "train" /\ pc = "start"
    /\ IF backend \in Supported
       THEN pc' = "load" /\ error' = error
       ELSE pc' = "error" /\ error' = Unsupported(backend)
    /\ UNCHANGED others /\ UNCHANGED <<cmd, entry, backend, decode, batch_size, ndata, test_file,
                   loaded, built, nparse, batch, idx, nsent, UAS, LAS,
                   count, evals, hist, out, report>>

\* train(), lines 58-70: load the training set and, if given, the test set
TrainLoad ==
    /\ cmd = "train" /\ pc = "load"
    /\ loaded' = loaded + (IF test_file THEN 2 ELSE 1)
    /\ pc' = "model"
    /\ UNCHANGED others /\ UNCHANGED <<cmd, entry, backend, decode, batch_size, ndata, test_file, error,
                   built, nparse, batch, idx, nsent, UAS, LAS, count,
                   evals, hist, out, report>>

\* train(), lines 85-157: the model, the optimizer and the trainer
TrainBuildModel ==
    /\ cmd = "train" /\ pc = "model"
    /\ built' = TRUE
    /\ pc' = "fit"
    /\ UNCHANGED others /\ UNCHANGED <<cmd, entry, backend, decode, batch_size, ndata, test_file, error,
                   loaded, nparse, batch, idx, nsent, UAS, LAS, count,
                   evals, hist, out, report>>

\* train(), lines 159-164: trainer.fit(...)
TrainFit ==
    /\ cmd = "train" /\ pc = "fit"
    /\ pc' = "done"
    /\ UNCHANGED others /\ UNCHANGED <<cmd, entry, backend, decode, batch_size, ndata, test_file, error,
                   loaded, built, nparse, batch, idx, nsent, UAS, LAS,
                   count, evals, hist, out, report>>

\* TestSetupBackend without the else branch of lines 193-195.
TestSetupBackendNoRaise ==
    /\ cmd = "test" /\ pc = "start"
    /\ pc' = "load" /\ error' = error
    /\ UNCHANGED others /\ UNCHANGED <<cmd, entry, backend, decode, batch_size, ndata, test_file,
                   loaded, built, nparse, batch, idx, nsent, UAS, LAS,
                   count, evals, hist, out, report>>

\* test(), lines 173-195: load the context, select the backend or raise
TestSetupBackend ==
    /\ cmd = "test" /\ pc = "start"
    /\ IF backend \in Supported
       THEN pc' = "load" /\ error' = error
       ELSE pc' = "error" /\ error' = Unsupported(backend)
    /\ UNCHANGED others /\ UNCHANGED <<cmd, entry, backend, decode, batch_size, ndata, test_file,
                   loaded, built, nparse, batch, idx, nsent, UAS, LAS,
                   count, evals, hist, out, report>>

\* test(), lines 197-200: loader.load(target_file, train=False)
TestLoad ==
    /\ cmd = "test" /\ pc = "load"
    /\ loaded' = loaded + 1
    /\ pc' = "model"
    /\ UNCHANGED others /\ UNCHANGED <<cmd, entry, backend, decode, batch_size, ndata, test_file, error,
                   built, nparse, batch, idx, nsent, UAS, LAS, count,
                   evals, hist, out, report>>

\* test(), lines 211-230: the model, the parser, the evaluator, the aggregate
TestBuildModel ==
    /\ cmd = "test" /\ pc = "model"
    /\ built' = TRUE
    /\ UAS' = 0 /\ LAS' = 0 /\ count' = 0
    /\ pc' = "loop"
    /\ UNCHANGED others /\ UNCHANGED <<cmd, entry, backend, decode, batch_size, ndata, test_file, error,
                   loaded, nparse, batch, idx, nsent, evals, hist, out,
                   report>>

\* test(), lines 231-236: the iterator yields the next batch (batch_size
\* sentences, the last batch what is left) and parser.parse decodes it
ParseBatch ==
    /\ cmd = "test" /\ pc = "loop"
    /\ idx = Len(batch)
    /\ nsent < ndata
    /\ \E b \in [1..Min(batch_size, ndata - nsent) -> Items] :
          batch' = b
    /\ idx' = 0
    /\ nsent' = nsent + Min(batch_size, ndata - nsent)
    /\ nparse' = nparse + 1
    /\ UNCHANGED others /\ UNCHANGED <<cmd, entry, backend, decode, batch_size, ndata, test_file, pc,
                   error, loaded, built, UAS, LAS, count, evals, hist, out,
                   report>>

\* test(), lines 237-250: one sentence of the batch
EvalSentence ==
    /\ cmd = "test" /\ pc = "loop"
    /\ idx < Len(batch)
    /\ LET item == batch[idx + 1]
           s == LoopBody(decode, [UAS |-> UAS, LAS |-> LAS, count |-> count],
                         out, item)
       IN  /\ UAS' = s.acc.UAS
           /\ LAS' = s.acc.LAS
           /\ count' = s.acc.count
           /\ out' = s.out
           /\ evals' = Append(evals, EvalItem(item))
           /\ hist' = Append(hist, item)
    /\ idx' = idx + 1
    /\ UNCHANGED others /\ UNCHANGED <<cmd, entry, backend, decode, batch_size, ndata, test_file, pc,
                   error, loaded, built, nparse, batch, nsent, report>>

\* What line 252 does with the aggregate. A zero count makes Python's float
\* division raise ZeroDivisionError; once a numpy scalar returned by evaluate
\* has been added to the aggregate the same division yields NaN instead.
ReportOutcomes(acc, n) ==
    IF acc.count # 0 THEN { [kind |-> "scores"] @@ Scores(acc) }
    ELSE IF n = 0 THEN { [kind |-> "ZeroDivisionError"] }
    ELSE { [kind |-> "ZeroDivisionError"], [kind |-> "nan"] }

\* test(), lines 251-252: the loop is over, log the two scores
Report ==
    /\ cmd = "test" /\ pc = "loop"
    /\ idx = Len(batch)
    /\ nsent = ndata
    /\ \E r \in ReportOutcomes([UAS |-> UAS, LAS |-> LAS, count |-> count],
                               Len(evals)) :
          /\ report' = r
          /\ pc' = IF r.kind = "ZeroDivisionError" THEN "crashed" ELSE "done"
    /\ UNCHANGED others /\ UNCHANGED <<cmd, entry, backend, decode, batch_size, ndata, test_file, error,
                   loaded, built, nparse, batch, idx, nsent, UAS, LAS,
                   count, evals, hist, out>>

Next ==
    \/ TrainSetupBackend
    \/ TrainLoad
    \/ TrainBuildModel
    \/ TrainFit
    \/ TestSetupBackend
    \/ TestLoad
    \/ TestBuildModel
    \/ ParseBatch
    \/ EvalSentence
    \/ Report

Spec == Init /\ [][Next]_vars

\* ------------------------------------------------------------------------
\* Evaluator.evaluate called on its own
\* ------------------------------------------------------------------------

\* No command is running
FlowIdle ==
    /\ cmd = "none" /\ entry = "call" /\ backend = "chainer" /\ decode = FALSE
    /\ batch_size = 1 /\ ndata = 0 /\ test_file = FALSE
    /\ pc = "idle" /\ error = "" /\ loaded = 0 /\ built = FALSE
    /\ nparse = 0 /\ batch = <<>> /\ idx = 0 /\ nsent = 0
    /\ UAS = 0 /\ LAS = 0 /\ count = 0
    /\ evals = <<>> /\ hist = <<>> /\ out = <<>> /\ report = NoReport

\* The label ids of the evaluate calls
EvalLabelVocab == <<"root", "nsubj", "obj", "dobj">>

LabelId(name) ==
    CHOOSE i \in 0..(Len(EvalLabelVocab) - 1) : EvalLabelVocab[i + 1] = name

\* Gold annotations: heads and label ids of the tokens handed to evaluate
EvalGold ==
    { [arcs |-> <<>>, labels |-> <<>>],
      [arcs |-> <<0>>, labels |-> <<LabelId("root")>>],
      [arcs |-> <<0, 1, 1>>,
       labels |-> <<LabelId("root"), LabelId("nsubj"), LabelId("obj")>>] }

\* The calls: for each gold annotation every prediction and every mask
EvalInputs ==
    UNION { { [p_arcs |-> a, p_labels |-> l,
               t_arcs |-> g.arcs, t_labels |-> g.labels, mask |-> m] :
                a \in [1..Len(g.arcs) -> 0..Len(g.arcs)],
                l \in [1..Len(g.arcs) -> 0..(Len(EvalLabelVocab) - 1)],
                m \in [1..Len(g.arcs) -> BOOLEAN] } : g \in EvalGold }

InitEval ==
    /\ FlowIdle
    /\ ParseIdle
    /\ e_in \in EvalInputs
    /\ e_out = <<>>
    /\ e_pc = "called"

\* evaluator.evaluate(p_arcs, p_labels, t_arcs, t_labels, mask) returns
EvalCall ==
    /\ e_pc = "called"
    /\ e_out' = evaluate(e_in.p_arcs, e_in.p_labels,
                         e_in.t_arcs, e_in.t_labels, e_in.mask)
    /\ e_pc' = "returned"
    /\ UNCHANGED <<e_in, flowvars, d_n, d_arc, d_seed, d_pc, d_heads, d_labels>>

NextEval == EvalCall

SpecEval == InitEval /\ [][NextEval]_vars

\* ------------------------------------------------------------------------
\* The Decoder called on its own
\* ------------------------------------------------------------------------

InitParse ==
    /\ FlowIdle
    /\ EvalIdle
    /\ d_n \in 2..MaxLen
    /\ d_arc \in ArcMatrices(d_n)
    /\ d_seed \in 0..MaxSeed
    /\ d_pc = "called"
    /\ d_heads = <<>>
    /\ d_labels = <<>>

\* parser.parse(...) returns the heads and labels of the sentence
ParseCall ==
    /\ d_pc = "called"
    /\ \E r \in parse(d_n, d_arc, d_seed) :
          d_heads' = r.arcs /\ d_labels' = r.labels
    /\ d_pc' = "returned"
    /\ UNCHANGED <<d_n, d_arc, d_seed, flowvars, e_in, e_out, e_pc>>

NextParse == ParseCall

SpecParse == InitParse /\ [][NextParse]_vars

\* ------------------------------------------------------------------------
\* Properties of test() and train()
\* ------------------------------------------------------------------------

RECURSIVE SumTriples(_)
SumTriples(ts) ==
    IF ts = <<>> THEN <<0, 0, 0>>
    ELSE LET r == SumTriples(Tail(ts))
         IN  <<Head(ts)[1] + r[1], Head(ts)[2] + r[2], Head(ts)[3] + r[3]>>

InTest == cmd = "test" /\ pc \in {"loop", "done", "crashed"}

\* C2: the running aggregate is the component-wise sum of the triples evaluate
\* returned, one triple per sentence the loop has handled (the k-th triple is
\* the one of the k-th sentence), and the scores logged are
\* sum(uas)/sum(total) x 100 and sum(las)/sum(total) x 100.
C2_AggregateIsSumOfTriples ==
    InTest =>
        /\ <<UAS, LAS, count>> = SumTriples(evals)
        /\ Len(evals) = Len(hist)
        /\ Len(hist) = nsent - (Len(batch) - idx)
        /\ \A k \in 1..Len(hist) : evals[k] = EvalItem(hist[k])
        /\ (pc = "done") => Len(hist) = ndata
        /\ (report.kind = "scores") =>
              LET t == SumTriples(evals)
              IN  /\ t[3] > 0
                  /\ RatEq(report.uas, <<100 * t[1], t[3]>>)
                  /\ RatEq(report.las, <<100 * t[2], t[3]>>)

\* Two sentences with different token counts, where a mean of the
\* per-sentence ratios (50) differs from the ratio of the sums (100/3).
C2_Witness ==
    /\ pc = "done" /\ report.kind = "scores"
    /\ evals = << <<1, 1, 1>>, <<0, 0, 2>> >>
    /\ RatEq(report.uas, <<100, 3>>)

\* C3 (as claimed): when no token was evaluated, test() guards the division
\* and reports the score as undefined; it neither raises nor logs NaN.
C3_ZeroCountReportedUndefined ==
    /\ pc # "crashed"
    /\ report.kind # "nan"
    /\ (pc = "done" /\ cmd = "test" /\ count = 0) => report.kind = "undefined"

\* C4: every triple evaluate returned satisfies 0 <= las <= uas <= total,
\* and the running aggregate satisfies 0 <= LAS <= UAS <= count.
C4_CountsOrdered ==
    /\ \A k \in 1..Len(evals) :
          /\ 0 <= evals[k][2]
          /\ evals[k][2] <= evals[k][1]
          /\ evals[k][1] <= evals[k][3]
    /\ 0 <= LAS /\ LAS <= UAS /\ UAS <= count

\* Two sentences evaluated, the three numbers of the aggregate all different.
C4_Witness ==
    /\ Len(evals) = 2
    /\ 0 < LAS /\ LAS < UAS /\ UAS < count

\* The lines of one sentence, position by position: for p = 1..n-1 the word,
\* the POS tag, the predicted head and the predicted label of position p, and
\* then the blank line.
ExpectedLines(item) ==
    LET s == Corpus[item.sent]
        n == Len(s.words)
    IN  [p \in 1..(n - 1) |->
            Lookup(WordVocab, s.words[p + 1]) \o "\t"
            \o Lookup(PosVocab, s.pos[p + 1]) \o "\t"
            \o ToString(item.arcs[p + 1]) \o "\t"
            \o Lookup(LabelVocab, item.labels[p + 1])]
        \o <<"">>

RECURSIVE ExpectedOut(_)
ExpectedOut(h) ==
    IF h = <<>> THEN <<>>
    ELSE ExpectedLines(Head(h)) \o ExpectedOut(Tail(h))

\* C6: in decode mode standard output holds, for the sentences handled so far
\* and in their order, one line per non-root position 1..n-1 with the word,
\* the POS tag, the predicted head and the predicted label of that position,
\* tab-separated, and a blank line after each sentence; without decode it
\* holds nothing.
C6_DecodeOutput ==
    /\ decode => out = ExpectedOut(hist)
    /\ ~decode => out = <<>>

\* Two sentences of two tokens each printed, with predictions that differ
\* between the two tokens of a sentence.
C6_Witness ==
    /\ decode /\ pc = "done"
    /\ Len(hist) = 2 /\ Len(out) = 6
    /\ hist[1].arcs[2] # hist[1].arcs[3]
    /\ hist[2].labels[2] # hist[2].labels[3]

\* C7: with a backend that is neither 'chainer' nor 'pytorch', train() and
\* test() both end in an error state whose message names the backend, having
\* loaded no dataset, built no model and called neither parse nor evaluate.
C7_UnsupportedBackendFailsFast ==
    (backend \notin {"chainer", "pytorch"} /\ pc # "start") =>
        /\ pc = "error"
        /\ backend = "tensorflow" =>
              error = "backend=tensorflow is not supported."
        /\ loaded = 0
        /\ ~built
        /\ nparse = 0
        /\ evals = <<>> /\ hist = <<>>
        /\ out = <<>>
        /\ report = NoReport

\* train() called with backend 'tensorflow' has raised its ValueError.
C7_Witness ==
    /\ cmd = "train" /\ backend = "tensorflow"
    /\ pc = "error" /\ error # ""

\* The run of the loop over the sentences h with the decode flag d
RECURSIVE Replay(_, _, _, _)
Replay(d, acc, o, h) ==
    IF h = <<>> THEN [acc |-> acc, out |-> o]
    ELSE LET s == LoopBody(d, acc, o, Head(h))
         IN  Replay(d, s.acc, s.out, Tail(h))

\* C10: the aggregate of this run is the aggregate of the run with the other
\* value of decode over the same sentences and the same parser outputs, the
\* evaluate calls are the same in both, and the prediction just printed is
\* still what parse returned.
C10_DecodeDoesNotInfluenceEvaluation ==
    InTest =>
        LET zero == [UAS |-> 0, LAS |-> 0, count |-> 0]
            other == Replay(~decode, zero, <<>>, hist)
        IN  /\ [UAS |-> UAS, LAS |-> LAS, count |-> count] = other.acc
            /\ \A k \in 1..Len(hist) : evals[k] = EvalItem(hist[k])
            /\ (idx > 0) => batch[idx] = hist[Len(hist)]

\* A decode run that printed lines and counted tokens.
C10_Witness ==
    /\ decode /\ pc = "done"
    /\ Len(out) > 2 /\ count > 0 /\ UAS > 0

\* ------------------------------------------------------------------------
\* Properties of Evaluator.evaluate
\* ------------------------------------------------------------------------

\* The sequences handed to evaluate hold one entry per position of the
\* sentence, position 0 being the root (lines 235-241): the non-root tokens
\* of the sentence are the positions but the first.
NonRootTokens(m) == IF Len(m) = 0 THEN 0 ELSE Len(m) - 1

C8Scenario ==
    [p_arcs   |-> <<0, 1, 2>>,
     p_labels |-> <<LabelId("root"), LabelId("nsubj"), LabelId("dobj")>>,
     t_arcs   |-> <<0, 1, 1>>,
     t_labels |-> <<LabelId("root"), LabelId("nsubj"), LabelId("obj")>>,
     mask     |-> <<FALSE, FALSE, FALSE>>]

\* C8 (as claimed): on the example evaluate returns uas_count = 2,
\* las_count = 1 and total_count = 3.
C8_ExampleAsClaimed ==
    (e_pc = "returned" /\ e_in = C8Scenario) => e_out = <<2, 1, 3>>

\* C8 (amended): on the example evaluate returns uas_count = 2, las_count = 2
\* and total_count = 3: tokens 1 and 2 both have the gold head and the gold
\* label.
C8_ExampleCounts ==
    (e_pc = "returned" /\ e_in = C8Scenario) => e_out = <<2, 2, 3>>

C8_Witness ==
    e_pc = "returned" /\ e_in = C8Scenario

\* ------------------------------------------------------------------------
\* Properties of the Decoder
\* ------------------------------------------------------------------------

\* The head of token i in what parse returned
HeadOf(i) == d_heads[i + 1]

\* Every row has one highest score among the candidate heads
UniqueMaxRows ==
    \A i \in Tokens(d_n) :
        Cardinality({j \in 0..(d_n - 1) : j # i /\
            \A k \in 0..(d_n - 1) : k # i => d_arc[i][j] >= d_arc[i][k]}) = 1

\* The per-token argmax is a tree (stated on the scores, not on Greedy)
ArgmaxIsTree ==
    \E h \in [Tokens(d_n) -> 0..(d_n - 1)] :
        /\ \A i \in Tokens(d_n) :
              h[i] # i /\ \A k \in 0..(d_n - 1) : k # i => d_arc[i][h[i]] >= d_arc[i][k]
        /\ Cardinality({i \in Tokens(d_n) : h[i] = 0}) = 1
        /\ \E depth \in [Tokens(d_n) -> Tokens(d_n)] :
              \A i \in Tokens(d_n) :
                  IF h[i] = 0 THEN depth[i] = 1 ELSE depth[h[i]] < depth[i]

\* C9: with a unique highest score in every row and a per-token argmax that
\* is a tree, parse returns that argmax for every token, a position of the
\* sentence and never a padding position, and labels every token with the
\* highest-scoring label of its arc (the lowest label id on a tie).
C9_ValidArgmaxKept ==
    (d_pc = "returned" /\ UniqueMaxRows /\ ArgmaxIsTree) =>
        \A i \in Tokens(d_n) :
            /\ HeadOf(i) < d_n /\ HeadOf(i) # i
            /\ \A k \in 0..(d_n - 1) :
                  (k # i /\ k # HeadOf(i)) => d_arc[i][HeadOf(i)] > d_arc[i][k]
            /\ \A l \in LabelIds :
                  LET best == LabelScore(d_seed, i, HeadOf(i), d_labels[i + 1])
                      this == LabelScore(d_seed, i, HeadOf(i), l)
                  IN  best > this \/ (best = this /\ d_labels[i + 1] <= l)

\* A sentence shorter than the matrix whose padding column outscores every
\* candidate head of token 1.
C9_Witness ==
    /\ d_pc = "returned" /\ UniqueMaxRows /\ ArgmaxIsTree
    /\ d_n = 3
    /\ d_arc[1][3] > d_arc[1][HeadOf(1)]
    /\ d_labels[2] # d_labels[3]

====
